---- MODULE Spec2Model ----
(***************************************************************************)
(* The evaluation pass of T5DST/T5.py (evaluate_model): the fold of the    *)
(* per-slot generations of a seq2seq model into per-dialogue, per-turn     *)
(* belief states (predictions), the per-slot hit/total counters            *)
(* (slot_logger), their finalisation, and the three result files.          *)
(***************************************************************************)
EXTENDS Naturals, Sequences, FiniteSets, TLC

(***************************************************************************)
(* Bounds of the model: the number of examples the test loader yields in   *)
(* one pass and the largest batch it collates.                             *)
(***************************************************************************)
MaxExamples == 3
MaxBatch == 2

(***************************************************************************)
(* The inputs of evaluate_model.  ALL_SLOTS is the slot list, prefix the   *)
(* file-name prefix (its default).                                         *)
(***************************************************************************)
ALL_SLOTS == <<"hotel-area", "hotel-stars">>
prefix == "zeroshot"

\* The keys of slot_logger.
Slots == {ALL_SLOTS[i] : i \in 1..Len(ALL_SLOTS)}

\* batch["value_text"][idx] as the data loader derives it from the turn's
\* ground truth: the slot's value there, "none" when the slot is absent.
ValueText(turn_belief, slot_text) ==
    IF slot_text = "hotel-area" /\ turn_belief = <<"hotel-area-east">>
    THEN "east" ELSE "none"

\* The examples the test loader can yield (one row of a batch each), every
\* one for a slot of ALL_SLOTS, as the loader builds them from that list.  The
\* second variant of dialogue D1, turn 0 carries another domain list and
\* another ground truth than the first: nothing in evaluate_model stops a
\* loader from yielding both.
Rows ==
    { [ID |-> k[1], turn_id |-> k[2], domains |-> k[3], turn_belief |-> k[4],
       slot_text |-> s, value_text |-> ValueText(k[4], s)] :
        k \in { <<"D1", 0, <<"hotel">>, <<>> >>,
                <<"D1", 0, <<"train", "hotel">>, <<"hotel-area-east">> >>,
                <<"D1", 1, <<"train", "hotel">>, <<"hotel-area-east">> >>,
                <<"D2", 0, <<"train">>, <<>> >> },
        s \in Slots }

Dials == {r.ID : r \in Rows}
Turns == {r.turn_id : r \in Rows}
Keys == Dials \X Turns

\* What the tokenizer may decode the generation for a row to.  The model's
\* output is arbitrary text: besides the sentinel and a proper value, every
\* turn draws one text that only resembles the sentinel ("None", "none ",
\* the empty string), so that each occurs in some stream.
Texts(row) ==
    {"none", "east",
     IF row.ID = "D2" THEN "" ELSE IF row.turn_id = 0 THEN "None" ELSE "none "}

\* A row together with a text generated for it.
Generations == UNION {{<<row, value>> : value \in Texts(row)} : row \in Rows}

\* The data loader's collate: a batch is a dict of equally long lists.
Collate(rows) ==
    [ID |-> [i \in 1..Len(rows) |-> rows[i].ID],
     turn_id |-> [i \in 1..Len(rows) |-> rows[i].turn_id],
     domains |-> [i \in 1..Len(rows) |-> rows[i].domains],
     turn_belief |-> [i \in 1..Len(rows) |-> rows[i].turn_belief],
     slot_text |-> [i \in 1..Len(rows) |-> rows[i].slot_text],
     value_text |-> [i \in 1..Len(rows) |-> rows[i].value_text]]

NoBatch == Collate(<<>>)

VARIABLES
    pc,                 \* where evaluate_model is
    batch,              \* the batch of the current iteration of the outer loop
    value_batch,        \* tokenizer.batch_decode(...) of the current batch
    idx,                \* the inner loop's index, 0-based as enumerate counts
    predictions,        \* dial_id -> {domain, turns: turn_id -> {turn_belief, pred_belief}}
    slot_logger,        \* slot_name -> <<total, hit, ratio>>
    evaluation_metrics, \* <<>> until evaluate_metrics has returned, then <<metrics>>
    files,              \* the files written under save_path, in the order written
    processed,          \* the number of examples whose loop body has completed
    generated           \* per (dialogue, turn): the <<slot, value>> generated for its examples, in stream order

vars == <<pc, batch, value_batch, idx, predictions, slot_logger,
          evaluation_metrics, files, processed, generated>>

(***************************************************************************)
(* Helpers.                                                                *)
(***************************************************************************)
RECURSIVE GCD(_, _)
GCD(a, b) == IF b = 0 THEN a ELSE GCD(b, a % b)

\* Python's true division a / b of two non-negative ints, b > 0, as the
\* fraction in lowest terms (equal floats <=> equal fractions here).
Div(a, b) == <<a \div GCD(a, b), b \div GCD(a, b)>>

ToSet(seq) == {seq[i] : i \in 1..Len(seq)}

\* The int 0 a slot counter's third field starts as (0 == 0.0 in Python).
Zero == <<0, 1>>

(***************************************************************************)
(* Line 139: slot_logger = {slot_name: [0, 0, 0] for slot_name in ALL_SLOTS}*)
(***************************************************************************)
InitSlotLogger == [s \in Slots |-> <<0, 0, Zero>>]

Init ==
    /\ pc = "loop"
    /\ batch = NoBatch
    /\ value_batch = <<>>
    /\ idx = 0
    /\ predictions = <<>>
    /\ slot_logger = InitSlotLogger
    /\ evaluation_metrics = <<>>
    /\ files = <<>>
    /\ processed = 0
    /\ generated = [k \in Keys |-> <<>>]

(***************************************************************************)
(* Lines 141-149: the outer loop takes the next batch of the loader and    *)
(* the model generates one value per row of it.                            *)
(***************************************************************************)
Generate(rows, values) ==
    /\ batch' = Collate(rows)
    /\ value_batch' = values
    /\ idx' = 0
    /\ generated' =
         [k \in Keys |->
            generated[k] \o
            SelectSeq([i \in 1..Len(rows) |->
                          IF <<rows[i].ID, rows[i].turn_id>> = k
                          THEN <<rows[i].slot_text, values[i]>> ELSE <<>>],
                      LAMBDA p : p # <<>>)]

NextBatch ==
    /\ pc = "loop"
    /\ processed < MaxExamples
    /\ \E n \in 1..MaxBatch :
         /\ processed + n <= MaxExamples
         /\ \E g \in [1..n -> Generations] :
              Generate([i \in 1..n |-> g[i][1]], [i \in 1..n |-> g[i][2]])
    /\ pc' = "ingest"
    /\ UNCHANGED <<predictions, slot_logger, evaluation_metrics, files, processed>>

(***************************************************************************)
(* Lines 151-171: the body of the inner loop, for the example at idx.      *)
(***************************************************************************)
\* Lines 153-156: the dialogue's record, created when dial_id is first seen.
WithDialogue(preds, dial_id, domains) ==
    IF dial_id \in DOMAIN preds
    THEN preds
    ELSE preds @@ (dial_id :> [domain |-> domains[1], turns |-> <<>>])

\* WithTurn as it would be if a later example of a turn replaced the
\* turn's ground truth.
WithTurnOverwrite(preds, dial_id, turn_id, turn_belief) ==
    IF turn_id \in DOMAIN preds[dial_id].turns
    THEN [preds EXCEPT ![dial_id].turns[turn_id].turn_belief = turn_belief]
    ELSE [preds EXCEPT ![dial_id].turns =
              @ @@ (turn_id :> [turn_belief |-> turn_belief, pred_belief |-> <<>>])]

\* WithTurn as it would be without the test of line 157: every example
\* starts its turn's record afresh.
WithTurnReset(preds, dial_id, turn_id, turn_belief) ==
    [preds EXCEPT ![dial_id].turns =
         (turn_id :> [turn_belief |-> turn_belief, pred_belief |-> <<>>]) @@ @]

\* Lines 157-161: the turn's record, created when turn_id is first seen.
WithTurn(preds, dial_id, turn_id, turn_belief) ==
    IF turn_id \in DOMAIN preds[dial_id].turns
    THEN preds
    ELSE [preds EXCEPT ![dial_id].turns =
              @ @@ (turn_id :> [turn_belief |-> turn_belief, pred_belief |-> <<>>])]

\* IsNone as it would be if the sentinel were compared ignoring case.
IsNoneAnyCase(value) == value \in {"none", "None"}

\* Line 163: the test that keeps a generation out of the predicted belief.
IsNone(value) == value = "none"

\* Line 166: str(slot_text) + "-" + str(value).
SlotValue(slot_text, value) == slot_text \o "-" \o value

\* WithPrediction as it would be if the turn's record were only kept once
\* a value other than "none" is generated for the turn.
WithPredictionLazy(preds, dial_id, turn_id, slot_text, value) ==
    IF ~IsNone(value)
    THEN [preds EXCEPT ![dial_id].turns[turn_id].pred_belief =
              Append(@, SlotValue(slot_text, value))]
    ELSE IF preds[dial_id].turns[turn_id].pred_belief = <<>>
         THEN [preds EXCEPT ![dial_id].turns =
                   [t \in (DOMAIN @) \ {turn_id} |-> @[t]]]
         ELSE preds

\* WithPrediction as it would be if the predicted belief were kept as a
\* set: an entry already there is not appended again.
WithPredictionDedup(preds, dial_id, turn_id, slot_text, value) ==
    IF ~IsNone(value)
       /\ SlotValue(slot_text, value)
            \notin ToSet(preds[dial_id].turns[turn_id].pred_belief)
    THEN [preds EXCEPT ![dial_id].turns[turn_id].pred_belief =
              Append(@, SlotValue(slot_text, value))]
    ELSE preds

\* Lines 163-166.
WithPrediction(preds, dial_id, turn_id, slot_text, value) ==
    IF ~IsNone(value)
    THEN [preds EXCEPT ![dial_id].turns[turn_id].pred_belief =
              Append(@, SlotValue(slot_text, value))]
    ELSE preds

\* IsHit as it would be if a "none" generation never counted as a hit.
IsHitUnlessNone(value, value_text) == value = value_text /\ value # "none"

\* Line 169: str(value) == str(value_text).
IsHit(value, value_text) == value = value_text

\* Record as it would be with line 171 indented under the test of line 169.
RecordTotalOnHit(logger, slot_text, value, value_text) ==
    IF IsHit(value, value_text)
    THEN [logger EXCEPT ![slot_text] = <<@[1] + 1, @[2] + 1, @[3]>>]
    ELSE logger

\* Record as it would be if it kept the ratio up to date example by example.
RecordWithRatio(logger, slot_text, value, value_text) ==
    LET hits == logger[slot_text][2] + (IF IsHit(value, value_text) THEN 1 ELSE 0)
        total == logger[slot_text][1] + 1
    IN [logger EXCEPT ![slot_text] = <<total, hits, Div(hits, total)>>]

\* Lines 169-171: one hit when the texts are equal, one total always.
Record(logger, slot_text, value, value_text) ==
    LET hit == IF IsHit(value, value_text)
               THEN [logger EXCEPT ![slot_text][2] = @ + 1]
               ELSE logger
    IN [hit EXCEPT ![slot_text][1] = @ + 1]

\* ValueAt as it would be if the values were read from the batch's end.
ValueAtReversed(values, i) == values[Len(values) - i]

\* Line 151: enumerate pairs the idx-th value with the idx-th row.
ValueAt(values, i) == values[i + 1]

IngestExample ==
    /\ pc = "ingest"
    /\ LET value == ValueAt(value_batch, idx)
           dial_id == batch.ID[idx + 1]
           turn_id == batch.turn_id[idx + 1]
       IN /\ predictions' =
               WithPrediction(
                   WithTurn(WithDialogue(predictions, dial_id, batch.domains[idx + 1]),
                            dial_id, turn_id, batch.turn_belief[idx + 1]),
                   dial_id, turn_id, batch.slot_text[idx + 1], value)
          /\ slot_logger' =
               Record(slot_logger, batch.slot_text[idx + 1], value,
                      batch.value_text[idx + 1])
    /\ processed' = processed + 1
    /\ IF idx + 1 < Len(value_batch)
       THEN idx' = idx + 1 /\ pc' = "ingest"
       ELSE idx' = idx /\ pc' = "loop"
    /\ UNCHANGED <<batch, value_batch, evaluation_metrics, files, generated>>

\* Line 141: the loader is exhausted.
EndOfStream ==
    /\ pc = "loop"
    /\ pc' = "finalize"
    /\ UNCHANGED <<batch, value_batch, idx, predictions, slot_logger,
                   evaluation_metrics, files, processed, generated>>

(***************************************************************************)
(* Lines 173-174: the ratio of every counter, in the dict's order; the     *)
(* division raises ZeroDivisionError at the first counter with total 0,    *)
(* leaving the counters before it finalised.                               *)
(***************************************************************************)
\* FinalizeFrom as it would be if a counter with total 0 kept its ratio 0
\* instead of raising.
RECURSIVE FinalizeSkipZero(_, _)
FinalizeSkipZero(i, logger) ==
    IF i > Len(ALL_SLOTS)
    THEN [slot_logger |-> logger, raised |-> FALSE]
    ELSE LET slot_log == logger[ALL_SLOTS[i]]
         IN IF slot_log[1] = 0
            THEN FinalizeSkipZero(i + 1, logger)
            ELSE FinalizeSkipZero(i + 1,
                     [logger EXCEPT ![ALL_SLOTS[i]][3] = Div(slot_log[2], slot_log[1])])

RECURSIVE FinalizeFrom(_, _)
FinalizeFrom(i, logger) ==
    IF i > Len(ALL_SLOTS)
    THEN [slot_logger |-> logger, raised |-> FALSE]
    ELSE LET slot_log == logger[ALL_SLOTS[i]]
         IN IF slot_log[1] = 0
            THEN [slot_logger |-> logger, raised |-> TRUE]
            ELSE FinalizeFrom(i + 1,
                     [logger EXCEPT ![ALL_SLOTS[i]][3] = Div(slot_log[2], slot_log[1])])

Finalize ==
    /\ pc = "finalize"
    /\ LET r == FinalizeFrom(1, slot_logger)
       IN /\ slot_logger' = r.slot_logger
          /\ pc' = IF r.raised THEN "ZeroDivisionError" ELSE "dump_slot_acc"
    /\ UNCHANGED <<batch, value_batch, idx, predictions, evaluation_metrics,
                   files, processed, generated>>

\* Lines 176-177.
DumpSlotAcc ==
    /\ pc = "dump_slot_acc"
    /\ files' = Append(files, [name |-> prefix \o "_slot_acc.json",
                               content |-> slot_logger])
    /\ pc' = "dump_prediction"
    /\ UNCHANGED <<batch, value_batch, idx, predictions, slot_logger,
                   evaluation_metrics, processed, generated>>

\* Lines 179-180.
DumpPrediction ==
    /\ pc = "dump_prediction"
    /\ files' = Append(files, [name |-> prefix \o "_prediction.json",
                               content |-> predictions])
    /\ pc' = "evaluate_metrics"
    /\ UNCHANGED <<batch, value_batch, idx, predictions, slot_logger,
                   evaluation_metrics, processed, generated>>

(***************************************************************************)
(* evaluate_metrics(predictions, ALL_SLOTS) of evaluate.py: joint goal     *)
(* accuracy, turn accuracy and joint F1 over all turns of all dialogues.   *)
(* Averages are fractions <<numerator, denominator>> in lowest terms.      *)
(***************************************************************************)
AllTurns(preds) ==
    UNION {{<<d, t>> : t \in DOMAIN preds[d].turns} : d \in DOMAIN preds}

TurnOf(preds, k) == preds[k[1]].turns[k[2]]

\* 1 when the predicted and the ground-truth belief are equal as sets.
TurnMatch(turn) ==
    IF ToSet(turn.pred_belief) = ToSet(turn.turn_belief) THEN 1 ELSE 0

\* F1 of one turn: 1 when both sets are empty, else the harmonic mean of
\* precision and recall, 2 TP / (2 TP + FP + FN).
TurnF1(turn) ==
    LET pred == ToSet(turn.pred_belief)
        gold == ToSet(turn.turn_belief)
        tp == Cardinality(pred \cap gold)
        fp == Cardinality(pred \ gold)
        fn == Cardinality(gold \ pred)
    IN IF pred = {} /\ gold = {} THEN <<1, 1>> ELSE Div(2 * tp, 2 * tp + fp + fn)

AddFrac(a, b) == Div(a[1] * b[2] + b[1] * a[2], a[2] * b[2])

RECURSIVE SumMatch(_, _)
SumMatch(preds, ks) ==
    IF ks = {} THEN 0
    ELSE LET k == CHOOSE x \in ks : TRUE
         IN TurnMatch(TurnOf(preds, k)) + SumMatch(preds, ks \ {k})

RECURSIVE SumF1(_, _)
SumF1(preds, ks) ==
    IF ks = {} THEN <<0, 1>>
    ELSE LET k == CHOOSE x \in ks : TRUE
         IN AddFrac(TurnF1(TurnOf(preds, k)), SumF1(preds, ks \ {k}))

evaluate_metrics(preds) ==
    LET ks == AllTurns(preds)
        n == Cardinality(ks)
        f1 == SumF1(preds, ks)
    IN [joint_acc |-> Div(SumMatch(preds, ks), n),
        turn_acc |-> Div(SumMatch(preds, ks), n),
        joint_f1 |-> Div(f1[1], f1[2] * n)]

\* Lines 182-189.
EvaluateMetrics ==
    /\ pc = "evaluate_metrics"
    /\ evaluation_metrics' = <<evaluate_metrics(predictions)>>
    /\ pc' = "dump_result"
    /\ UNCHANGED <<batch, value_batch, idx, predictions, slot_logger, files,
                   processed, generated>>

\* Lines 191-194.
DumpResult ==
    /\ pc = "dump_result"
    /\ files' = Append(files, [name |-> prefix \o "_result.json",
                               content |-> evaluation_metrics[1]])
    /\ pc' = "done"
    /\ UNCHANGED <<batch, value_batch, idx, predictions, slot_logger,
                   evaluation_metrics, processed, generated>>

Next ==
    \/ NextBatch
    \/ IngestExample
    \/ EndOfStream
    \/ Finalize
    \/ DumpSlotAcc
    \/ DumpPrediction
    \/ EvaluateMetrics
    \/ DumpResult

Spec == Init /\ [][Next]_vars

(***************************************************************************)
(* State functions the properties are stated with.                         *)
(***************************************************************************)
HasTurn(preds, k) ==
    k[1] \in DOMAIN preds /\ k[2] \in DOMAIN preds[k[1]].turns

\* The predicted belief of turn k, empty when the turn has no record.
PredBelief(preds, k) ==
    IF HasTurn(preds, k) THEN preds[k[1]].turns[k[2]].pred_belief ELSE <<>>

\* The example the inner loop is at, and the value generated for it.
CurKey == <<batch.ID[idx + 1], batch.turn_id[idx + 1]>>
CurSlot == batch.slot_text[idx + 1]
CurValue == value_batch[idx + 1]
CurValueText == batch.value_text[idx + 1]

\* The entries a turn's generations <<slot, value>> call for, in order.
RECURSIVE Expected(_)
Expected(g) ==
    IF g = <<>> THEN <<>>
    ELSE (IF Head(g)[2] = "none" THEN <<>>
          ELSE <<Head(g)[1] \o "-" \o Head(g)[2]>>) \o Expected(Tail(g))

NoDuplicates(seq) ==
    \A i, j \in 1..Len(seq) : seq[i] = seq[j] => i = j

\* How many of the stream's examples so far are for slot s.
RECURSIVE CountSlot(_, _)
CountSlot(g, s) ==
    IF g = <<>> THEN 0
    ELSE (IF Head(g)[1] = s THEN 1 ELSE 0) + CountSlot(Tail(g), s)

RECURSIVE SumOver(_, _)
SumOver(f, S) ==
    IF S = {} THEN 0
    ELSE LET x == CHOOSE y \in S : TRUE IN f[x] + SumOver(f, S \ {x})

Entries(preds) == SumOver([k \in Keys |-> Len(PredBelief(preds, k))], Keys)
Totals(logger) == SumOver([s \in Slots |-> logger[s][1]], Slots)

\* Every batch read so far has been ingested to its end.
BetweenBatches == pc # "ingest"
Accumulating == pc \in {"loop", "ingest"}

\* No (dialogue, turn, slot) occurs twice in the stream read so far.
UniqueTriples ==
    \A k \in Keys : \A i, j \in 1..Len(generated[k]) :
        generated[k][i][1] = generated[k][j][1] => i = j

\* The names of the files of a pass, in the order lines 176-192 write them.
ArtifactOrder ==
    <<prefix \o "_slot_acc.json", prefix \o "_prediction.json", prefix \o "_result.json">>

\* The turns the stream has had an example of; those whose examples all
\* generated "none"; those of them whose stored ground truth is empty.
SeenTurns == {k \in Keys : generated[k] # <<>>}

AllNone(k) == \A i \in 1..Len(generated[k]) : generated[k][i][2] = "none"

EmptyTurns ==
    {k \in SeenTurns : /\ AllNone(k)
                       /\ HasTurn(predictions, k)
                       /\ predictions[k[1]].turns[k[2]].turn_belief = <<>>}

(***************************************************************************)
(* C1.  Inclusion rule: the loop body leaves the predicted belief of the   *)
(* example's turn as it was (empty for a turn just created) when the       *)
(* generated value is exactly "none", and appends exactly the one entry    *)
(* slot_name + "-" + value for every other text.                           *)
(***************************************************************************)
C1_InclusionRule ==
    [][pc = "ingest" =>
         /\ HasTurn(predictions', CurKey)
         /\ PredBelief(predictions', CurKey) =
              IF CurValue = "none"
              THEN PredBelief(predictions, CurKey)
              ELSE Append(PredBelief(predictions, CurKey),
                          CurSlot \o "-" \o CurValue)]_vars

\* The texts that resemble the sentinel have each been appended.
C1_Witness ==
    /\ PredBelief(predictions, <<"D1", 0>>) = <<"hotel-area-None">>
    /\ PredBelief(predictions, <<"D1", 1>>) = <<"hotel-area-none ">>
    /\ PredBelief(predictions, <<"D2", 0>>) = <<"hotel-stars-">>

(***************************************************************************)
(* C2.  Write-once ground truth: a step never removes a dialogue or a turn *)
(* record and never changes a stored domain or a stored turn_belief; the   *)
(* stored ones are those of the example that created the record.           *)
(***************************************************************************)
C2_WriteOnceGroundTruth ==
    [][/\ \A d \in DOMAIN predictions :
             /\ d \in DOMAIN predictions'
             /\ predictions'[d].domain = predictions[d].domain
             /\ \A t \in DOMAIN predictions[d].turns :
                    /\ t \in DOMAIN predictions'[d].turns
                    /\ predictions'[d].turns[t].turn_belief =
                         predictions[d].turns[t].turn_belief
       /\ pc = "ingest" =>
             /\ CurKey[1] \notin DOMAIN predictions =>
                    predictions'[CurKey[1]].domain = batch.domains[idx + 1][1]
             /\ ~HasTurn(predictions, CurKey) =>
                    predictions'[CurKey[1]].turns[CurKey[2]].turn_belief =
                        batch.turn_belief[idx + 1]]_vars

\* An example of an existing turn, carrying another ground truth and
\* another first domain than the stored ones, has been ingested.
C2_Witness ==
    /\ pc = "loop"
    /\ Len(value_batch) = 2
    /\ batch.ID = <<"D1", "D1">>
    /\ batch.turn_id = <<0, 0>>
    /\ batch.turn_belief = << <<>>, <<"hotel-area-east">> >>
    /\ batch.domains = << <<"hotel">>, <<"train", "hotel">> >>
    /\ predictions["D1"].domain = "hotel"
    /\ predictions["D1"].turns[0].turn_belief = <<>>

(***************************************************************************)
(* C3.  Per-example accounting: the loop body adds 1 to the total of the   *)
(* example's slot, leaves every other slot's counter as it was, and adds   *)
(* at most one entry to the example's turn and none to any other turn; so  *)
(* the totals sum to the number of examples processed, the predicted       *)
(* entries are at most as many, and 0 <= hits <= total for every slot.     *)
(***************************************************************************)
C3_PerExampleAccounting ==
    /\ [](/\ Totals(slot_logger) = processed
          /\ Entries(predictions) <= processed
          /\ \A s \in Slots : slot_logger[s][2] <= slot_logger[s][1])
    /\ [][pc = "ingest" =>
            /\ slot_logger'[CurSlot][1] = slot_logger[CurSlot][1] + 1
            /\ \A s \in Slots \ {CurSlot} : slot_logger'[s] = slot_logger[s]
            /\ \A k \in Keys \ {CurKey} :
                   PredBelief(predictions', k) = PredBelief(predictions, k)
            /\ Len(PredBelief(predictions', CurKey))
                 \in {Len(PredBelief(predictions, CurKey)),
                      Len(PredBelief(predictions, CurKey)) + 1}]_vars

\* Three examples processed, two slots counted, fewer entries than examples.
C3_Witness ==
    /\ processed = 3
    /\ slot_logger["hotel-area"][1] = 2
    /\ slot_logger["hotel-stars"][1] = 1
    /\ Entries(predictions) = 2

(***************************************************************************)
(* C4.  A slot of ALL_SLOTS with total 0 at the end of the stream is       *)
(* fatal: the pass ends in ZeroDivisionError, with no file written and     *)
(* evaluate_metrics not called; and it ends so for no other reason.        *)
(***************************************************************************)
C4_UnevaluatedSlotIsFatal ==
    /\ (~Accumulating /\ pc # "finalize" /\ \E s \in Slots : slot_logger[s][1] = 0)
         => pc = "ZeroDivisionError"
    /\ pc = "ZeroDivisionError" =>
         /\ files = <<>>
         /\ evaluation_metrics = <<>>
         /\ \E s \in Slots : slot_logger[s][1] = 0 /\ slot_logger[s][3] = Zero

\* The pass failed although examples of the other slot were evaluated.
C4_Witness ==
    /\ pc = "ZeroDivisionError"
    /\ slot_logger["hotel-area"][1] = 3
    /\ slot_logger["hotel-area"][3] = <<1, 3>>
    /\ slot_logger["hotel-stars"][1] = 0

(***************************************************************************)
(* C5.  Slot hit rule: the loop body adds 1 to the hits of the example's   *)
(* slot if and only if the generated text equals value_text, whatever the  *)
(* inclusion rule does: "none" against "none" is a hit that adds no entry, *)
(* another text than value_text adds an entry and no hit.                  *)
(***************************************************************************)
C5_SlotHitRule ==
    [][pc = "ingest" =>
         /\ slot_logger'[CurSlot][2] =
              slot_logger[CurSlot][2] + (IF CurValue = CurValueText THEN 1 ELSE 0)
         /\ (CurValue = "none" /\ CurValueText = "none") =>
              /\ slot_logger'[CurSlot][2] = slot_logger[CurSlot][2] + 1
              /\ PredBelief(predictions', CurKey) = PredBelief(predictions, CurKey)
         /\ (CurValue # "none" /\ CurValue # CurValueText) =>
              /\ slot_logger'[CurSlot][2] = slot_logger[CurSlot][2]
              /\ Len(PredBelief(predictions', CurKey)) =
                   Len(PredBelief(predictions, CurKey)) + 1]_vars

\* A hit with no entry ("none" = "none") and an entry with no hit.
C5_Witness ==
    /\ processed = 2
    /\ slot_logger["hotel-stars"] = <<1, 1, Zero>>
    /\ slot_logger["hotel-area"] = <<1, 0, Zero>>
    /\ PredBelief(predictions, <<"D1", 0>>) = <<"hotel-area-east">>
    /\ generated[<<"D1", 0>>] = << <<"hotel-stars", "none">>, <<"hotel-area", "east">> >>

(***************************************************************************)
(* C6.  Accumulator guarantee: when no (dialogue, turn, slot) occurs twice *)
(* in the stream, then once the batches read are ingested every turn's     *)
(* predicted belief lists exactly the entries slot + "-" + value of the    *)
(* turn's examples whose generated value is not "none", each value with    *)
(* the row at its own index of the batch, in stream order and without a    *)
(* duplicate.                                                              *)
(***************************************************************************)
C6_AccumulatorGuarantee ==
    (BetweenBatches /\ UniqueTriples) =>
        \A k \in Keys :
            /\ PredBelief(predictions, k) = Expected(generated[k])
            /\ NoDuplicates(PredBelief(predictions, k))

\* Two dialogues interleaved in two batches; the turn of D1 holds both its
\* slots in the order they came.
C6_Witness ==
    /\ pc = "dump_slot_acc"
    /\ UniqueTriples
    /\ batch.ID = <<"D2", "D1">>
    /\ generated[<<"D1", 0>>] = << <<"hotel-stars", "None">>, <<"hotel-area", "east">> >>
    /\ generated[<<"D2", 0>>] = << <<"hotel-area", "none">> >>
    /\ PredBelief(predictions, <<"D1", 0>>) = <<"hotel-stars-None", "hotel-area-east">>
    /\ PredBelief(predictions, <<"D2", 0>>) = <<>>

(***************************************************************************)
(* C7.  Ingesting an example with "none" as its generated value leaves     *)
(* the predicted belief of every turn as it was (empty for a turn the      *)
(* ingest created), so ingesting it twice does too.                        *)
(***************************************************************************)
C7_NoneIngestIsNoOp ==
    [][(pc = "ingest" /\ CurValue = "none") =>
           \A k \in Keys :
               PredBelief(predictions', k) = PredBelief(predictions, k)]_vars

\* The same example was ingested twice with "none", after an entry of the
\* same turn: the entry is still all the turn holds.
C7_Witness ==
    /\ pc = "loop"
    /\ value_batch = <<"none", "none">>
    /\ batch.ID = <<"D1", "D1">>
    /\ batch.turn_id = <<0, 0>>
    /\ batch.slot_text = <<"hotel-stars", "hotel-stars">>
    /\ batch.turn_belief[1] = batch.turn_belief[2]
    /\ batch.domains[1] = batch.domains[2]
    /\ processed = 3
    /\ PredBelief(predictions, <<"D1", 0>>) = <<"hotel-area-east">>

(***************************************************************************)
(* C8.  Finalization ordering: while examples are processed every ratio    *)
(* keeps its initial value and nothing is written; the ratios are set by   *)
(* the one finalize step after the loop; the files follow in the order     *)
(* slot accuracy, predictions, (evaluate_metrics), result; and from        *)
(* finalization on neither the counters nor the predictions change.        *)
(***************************************************************************)
C8_FinalizationOrdering ==
    /\ [](/\ (Accumulating \/ pc = "finalize") =>
               /\ \A s \in Slots : slot_logger[s][3] = Zero
               /\ files = <<>>
               /\ evaluation_metrics = <<>>
          /\ [i \in 1..Len(files) |-> files[i].name] =
               SubSeq(ArtifactOrder, 1, Len(files))
          /\ evaluation_metrics # <<>> => Len(files) >= 2
          /\ Len(files) = 3 => evaluation_metrics # <<>>
          /\ Len(files) >= 1 =>
               /\ files[1].content = slot_logger
               /\ \A s \in Slots :
                      slot_logger[s][3] = Div(slot_logger[s][2], slot_logger[s][1])
          /\ Len(files) >= 2 => files[2].content = predictions
          /\ Len(files) >= 3 => files[3].content = evaluation_metrics[1])
    /\ [][/\ (\E s \in Slots : slot_logger'[s][3] # slot_logger[s][3])
               => (pc = "finalize" /\ processed' = processed)
          /\ pc = "finalize" => pc' # "finalize"
          /\ pc' = "finalize" => pc = "loop"
          /\ ~Accumulating /\ pc # "finalize" =>
               /\ slot_logger' = slot_logger
               /\ predictions' = predictions
               /\ pc' \notin {"loop", "ingest", "finalize"}]_vars

\* The whole pass ran: three files, a ratio that is neither 0 nor 1.
C8_Witness ==
    /\ pc = "done"
    /\ Len(files) = 3
    /\ slot_logger["hotel-area"] = <<2, 1, <<1, 2>> >>
    /\ slot_logger["hotel-stars"] = <<1, 1, <<1, 1>> >>

(***************************************************************************)
(* C9.  Empty turns stay in the denominator: a turn whose examples all     *)
(* generated "none" has a record with an empty predicted belief, so the    *)
(* evaluator gets it; with an empty ground truth it is a full match, so    *)
(* joint and turn accuracy are at least the share of such turns among all  *)
(* turns of the stream, and are 1 when every turn is such a turn.          *)
(***************************************************************************)
C9_EmptyTurnsCounted ==
    /\ BetweenBatches =>
         \A k \in SeenTurns :
             /\ HasTurn(predictions, k)
             /\ AllNone(k) => predictions[k[1]].turns[k[2]].pred_belief = <<>>
    /\ evaluation_metrics # <<>> =>
         LET m == evaluation_metrics[1]
             n == Cardinality(SeenTurns)
             e == Cardinality(EmptyTurns)
         IN /\ m.joint_acc[1] * n >= e * m.joint_acc[2]
            /\ m.turn_acc[1] * n >= e * m.turn_acc[2]
            /\ e = n => (m.joint_acc = <<1, 1>> /\ m.turn_acc = <<1, 1>>)

\* One empty turn that matches and one turn that does not: accuracy 1/2.
C9_Witness ==
    /\ pc = "done"
    /\ SeenTurns = {<<"D1", 0>>, <<"D2", 0>>}
    /\ EmptyTurns = {<<"D2", 0>>}
    /\ Len(generated[<<"D2", 0>>]) = 2
    /\ evaluation_metrics[1].joint_acc = <<1, 2>>
    /\ evaluation_metrics[1].turn_acc = <<1, 2>>

(***************************************************************************)
(* C10.  Duplicate ingestion appends: whether or not a (dialogue, turn,    *)
(* slot) recurs, once the batches read are ingested a turn's predicted     *)
(* belief holds one entry per example of the turn whose generated value    *)
(* is not "none", earlier ones kept, and a slot's total is the number of   *)
(* its examples; the length of a predicted belief never decreases.         *)
(***************************************************************************)
C10_DuplicateIngestionAppends ==
    /\ [](BetweenBatches =>
            /\ \A k \in Keys : PredBelief(predictions, k) = Expected(generated[k])
            /\ \A s \in Slots :
                   slot_logger[s][1] =
                       SumOver([k \in Keys |-> CountSlot(generated[k], s)], Keys))
    /\ [][\A k \in Keys :
              Len(PredBelief(predictions', k)) >= Len(PredBelief(predictions, k))]_vars

\* One slot of one turn ingested three times: twice with the same value,
\* once with another; all three entries are there.
C10_Witness ==
    /\ pc = "loop"
    /\ generated[<<"D1", 0>>] =
         << <<"hotel-area", "east">>, <<"hotel-area", "east">>, <<"hotel-area", "None">> >>
    /\ PredBelief(predictions, <<"D1", 0>>) =
         <<"hotel-area-east", "hotel-area-east", "hotel-area-None">>
    /\ slot_logger["hotel-area"][1] = 3

====
